---- MODULE Spec2Model ----
(***************************************************************************)
(* Model of the enum registry of package kit (src/kit/enums.go) and of the *)
(* stringer-generated conversion methods of ki.Flags                       *)
(* (src/ki/flags_string.go).                                               *)
(*                                                                         *)
(* A Go string is a sequence of one-character strings, so that slicing,    *)
(* splitting, prefix trimming and lower-casing are computed, not assumed.  *)
(* A Go map is a function whose DOMAIN is the set of keys present.         *)
(* An int64 of bit flags is a natural number; only non-negative values     *)
(* below 2^31 are enumerated.                                              *)
(***************************************************************************)
EXTENDS Integers, Sequences, FiniteSets, TLC

(***************************************************************************)
(* Bounds of the enumerated inputs.                                        *)
(***************************************************************************)
\* bit-flag values handed to BitFlagsToString are 0 .. 2^MaxBits - 1
MaxBits == 4
\* a decode input has at most MaxSegs '|'-separated segments
MaxSegs == 2
\* accumulators handed to a decode start in 0 .. MaxAcc
MaxAcc == 3

(***************************************************************************)
(* Strings (Go standard library, modelled by what the functions do).       *)
(***************************************************************************)
UpperChars == <<"A","B","C","D","E","F","G","H","I","J","K","L","M","N","O","P","Q","R","S","T","U","V","W","X","Y","Z">>

LowerChars == <<"a","b","c","d","e","f","g","h","i","j","k","l","m","n","o","p","q","r","s","t","u","v","w","x","y","z">>

DigitChars == <<"0","1","2","3","4","5","6","7","8","9">>

\* the lower-case letter of every upper-case letter
LowerTable ==
    [c \in {UpperChars[k] : k \in 1..Len(UpperChars)} |->
        LowerChars[CHOOSE k \in 1..Len(UpperChars) : UpperChars[k] = c]]

\* unicode.ToLower on one ASCII character
LowerChar(c) == IF c \in DOMAIN LowerTable THEN LowerTable[c] ELSE c

\* strings.ToLower
ToLower(s) == [k \in 1..Len(s) |-> LowerChar(s[k])]

\* strings.HasPrefix
HasPrefix(s, prefix) ==
    /\ Len(prefix) <= Len(s)
    /\ SubSeq(s, 1, Len(prefix)) = prefix

\* strings.TrimPrefix
TrimPrefix(s, prefix) ==
    IF HasPrefix(s, prefix) THEN SubSeq(s, Len(prefix) + 1, Len(s)) ELSE s

\* the Go slice expression s[lo:hi] (0-based, hi exclusive)
Slice(s, lo, hi) == SubSeq(s, lo + 1, hi)

\* strings.Split(s, "|"): the part of s before the first '|' at or after
\* position k, then the split of the rest; an empty s yields one empty part
RECURSIVE SplitFrom(_, _, _)
SplitFrom(s, k, cur) ==
    IF k > Len(s) THEN <<cur>>
    ELSE IF s[k] = "|" THEN <<cur>> \o SplitFrom(s, k + 1, <<>>)
    ELSE SplitFrom(s, k + 1, Append(cur, s[k]))

Split(s) == SplitFrom(s, 1, <<>>)

\* strconv.FormatInt(i, 10)
RECURSIVE FormatNat(_)
FormatNat(i) ==
    IF i < 10 THEN <<DigitChars[i + 1]>>
    ELSE FormatNat(i \div 10) \o <<DigitChars[(i % 10) + 1]>>

FormatInt(i) == IF i < 0 THEN <<"-">> \o FormatNat(0 - i) ELSE FormatNat(i)

(***************************************************************************)
(* ki.Flags: the stringer-generated name table and its two methods.        *)
(***************************************************************************)
Flags_name == <<"I","s","F","i","e","l","d","H","a","s","K","i","F","i","e","l","d","s","H","a","s","N","o","K","i","F","i","e","l","d","s","U","p","d","a","t","i","n","g","O","n","l","y","S","e","l","f","U","p","d","a","t","e","N","o","d","e","A","d","d","e","d","N","o","d","e","C","o","p","i","e","d","N","o","d","e","M","o","v","e","d","N","o","d","e","D","e","l","e","t","e","d","N","o","d","e","D","e","s","t","r","o","y","e","d","C","h","i","l","d","A","d","d","e","d","C","h","i","l","d","M","o","v","e","d","C","h","i","l","d","D","e","l","e","t","e","d","C","h","i","l","d","r","e","n","D","e","l","e","t","e","d","F","i","e","l","d","U","p","d","a","t","e","d","P","r","o","p","U","p","d","a","t","e","d","F","l","a","g","s","N">>

Flags_index == <<0, 7, 18, 31, 39, 53, 62, 72, 81, 92, 105, 115, 125, 137, 152, 164, 175, 181>>

\* the slices _Flags_name[_Flags_index[j]:_Flags_index[j+1]], j = 0, 1, ...
Flags_slices ==
    [k \in 1..(Len(Flags_index) - 1) |->
        Slice(Flags_name, Flags_index[k], Flags_index[k + 1])]

\* _Flags_name[_Flags_index[j]:_Flags_index[j+1]]
Flags_nameAt(j) == Flags_slices[j + 1]

\* the ordinal of the count sentinel FlagsN, the last name of the table
FlagsN == Len(Flags_index) - 2

\* func (i Flags) String() string
Flags_String(i) ==
    IF i < 0 \/ i >= Len(Flags_index) - 1
    THEN <<"F","l","a","g","s","(">> \o FormatInt(i) \o <<")">>
    ELSE Flags_nameAt(i)

\* the loop of FromString from index j on: the first j whose name is s
RECURSIVE Flags_FromStringLoop(_, _, _)
Flags_FromStringLoop(j, i, s) ==
    IF j < Len(Flags_index) - 1
    THEN IF s = Flags_nameAt(j)
         THEN [val |-> j, err |-> "nil"]
         ELSE Flags_FromStringLoop(j + 1, i, s)
    ELSE [val |-> i, err |-> "not a valid option"]

\* a FromString whose loop starts at 1: the first name is never matched
Flags_FromString_SkipFirst(i, s) == Flags_FromStringLoop(1, i, s)

\* func (i *Flags) FromString(s string) error: i is the value *i holds before
\* the call, val the value it holds after it
Flags_FromString(i, s) == Flags_FromStringLoop(0, i, s)

(***************************************************************************)
(* kit.TestFlags: the constants of enums.go; its stringer output is not    *)
(* part of the sources, String follows the stringer convention.            *)
(***************************************************************************)
TestFlags_names == << <<"T","e","s","t","F","l","a","g","s","N","i","l">>, <<"T","e","s","t","F","l","a","g","1">>, <<"T","e","s","t","F","l","a","g","2">>, <<"T","e","s","t","F","l","a","g","s","N">> >>

TestFlagsN == Len(TestFlags_names) - 1

TestFlags_String(i) ==
    IF i < 0 \/ i >= Len(TestFlags_names)
    THEN <<"T","e","s","t","F","l","a","g","s","(">> \o FormatInt(i) \o <<")">>
    ELSE TestFlags_names[i + 1]

(***************************************************************************)
(* Types are known by their short package-qualified name.                  *)
(***************************************************************************)
FlagsType == "ki.Flags"

TestFlagsType == "kit.TestFlags"

Types == {FlagsType, TestFlagsType}

\* EnumIfaceToString on a value of type typ: the type's String method
EnumIfaceToString(i, typ) ==
    IF typ = FlagsType THEN Flags_String(i) ELSE TestFlags_String(i)

\* func EnumInt64ToString(ival int64, typ reflect.Type) string
EnumInt64ToString(ival, typ) == EnumIfaceToString(ival, typ)

\* func SetEnumValueFromString(eval reflect.Value, str string) error, on a
\* pointer to a ki.Flags holding i: FromString is called through reflection
\* and what it returns is dropped, so the error is always nil
SetEnumValueFromString(i, str) ==
    [val |-> Flags_FromString(i, str).val, err |-> "nil"]

(***************************************************************************)
(* Package bitflag (not part of the sources): Has tests, Set sets bit      *)
(* number flag.                                                            *)
(***************************************************************************)
RECURSIVE ShiftRight(_, _)
ShiftRight(bits, k) ==
    IF k = 0 \/ bits = 0 THEN bits ELSE ShiftRight(bits \div 2, k - 1)

RECURSIVE Pow2(_)
Pow2(k) == IF k = 0 THEN 1 ELSE 2 * Pow2(k - 1)

bitflag_Has(bits, flag) == ShiftRight(bits, flag) % 2 = 1

bitflag_Set(bits, flag) ==
    IF bitflag_Has(bits, flag) THEN bits ELSE bits + Pow2(flag)

(***************************************************************************)
(* The bit-flag codec.                                                     *)
(***************************************************************************)
\* the loop of BitFlagsToString from ordinal i on; str is the string so far
RECURSIVE BitFlagsToStringLoop(_, _, _, _, _)
BitFlagsToStringLoop(i, str, bflg, n, et) ==
    IF i < n
    THEN IF bitflag_Has(bflg, i)
         THEN LET evs == EnumInt64ToString(i, et)
              IN  IF str = <<>>
                  THEN BitFlagsToStringLoop(i + 1, evs, bflg, n, et)
                  ELSE BitFlagsToStringLoop(i + 1, str \o <<"|">> \o evs, bflg, n, et)
         ELSE BitFlagsToStringLoop(i + 1, str, bflg, n, et)
    ELSE str

\* a BitFlagsToString that writes the separator before every name
RECURSIVE BitFlagsToString_LeadingBar(_, _, _)
BitFlagsToString_LeadingBar(bflg, n, et) ==
    IF n = 0 THEN <<>>
    ELSE IF bitflag_Has(bflg, n - 1)
         THEN BitFlagsToString_LeadingBar(bflg, n - 1, et)
                  \o <<"|">> \o EnumInt64ToString(n - 1, et)
         ELSE BitFlagsToString_LeadingBar(bflg, n - 1, et)

\* func BitFlagsToString(bflg int64, en interface{}) string: n is the integer
\* value of en and et its type
BitFlagsToString(bflg, n, et) == BitFlagsToStringLoop(0, <<>>, bflg, n, et)

\* the loop of BitFlagsTypeFromString over flgs[k..]: evv is the value the
\* scratch enum holds, err the error of the segment before
RECURSIVE BitFlagsFromStringLoop(_, _, _, _, _)
BitFlagsFromStringLoop(k, flgs, evv, bflg, err) ==
    IF k > Len(flgs) THEN [bflg |-> bflg, err |-> err]
    ELSE LET r == SetEnumValueFromString(evv, flgs[k])
         IN  IF r.err = "nil"
             THEN BitFlagsFromStringLoop(k + 1, flgs, r.val,
                                         bitflag_Set(bflg, r.val), r.err)
             ELSE BitFlagsFromStringLoop(k + 1, flgs, r.val, bflg, r.err)

\* func BitFlagsTypeFromString(bflg *int64, str string, et reflect.Type,
\* n int) error, for et = ki.Flags: bflg is the value *bflg holds before the
\* call; n is not read
BitFlagsTypeFromString(bflg, str, n) ==
    BitFlagsFromStringLoop(1, Split(str), 0, bflg, "nil")

(***************************************************************************)
(* State.                                                                  *)
(*   Enums, Props, Vals  the three maps of the registry kit.Enums          *)
(*   call                the last call: its name, arguments and result     *)
(*   wire                the string to convert next: one handed in by the  *)
(*                       caller, or the one an encoder returned, with the  *)
(*                       value it encodes                                  *)
(*   val                 the ki.Flags variable scalar parses write to      *)
(*   bflg                the int64 accumulator bit-flag decodes write to   *)
(*   callers             the goroutines inside Values: where each one is,  *)
(*                       its arguments and its local variables             *)
(*   heap                the maps callers hold references to: the property *)
(*                       template and the map stored as a value in it      *)
(***************************************************************************)
VARIABLES Enums, Props, Vals, call, wire, val, bflg, callers, heap

vars == <<Enums, Props, Vals, call, wire, val, bflg, callers, heap>>

registry == <<Enums, Props, Vals>>

(***************************************************************************)
(* Inputs of the conversions.                                              *)
(***************************************************************************)
\* ordinals handed to the stringifier: every name of the table and the
\* first ordinal past it
OrdInputs == 0..(FlagsN + 1)

\* strings callers hand to the scalar parse
ScalarInputs ==
    { <<"I","s","F","i","e","l","d">>, <<"H","a","s","K","i","F","i","e","l","d","s">>, <<"F","l","a","g","s","N">>, <<"i","s","f","i","e","l","d">>, <<"B","o","g","u","s">>, <<>>, <<"F","l","a","g","s","(","1","7",")">> }

\* the segments decode inputs are made of
Segments == { <<"I","s","F","i","e","l","d">>, <<"H","a","s","K","i","F","i","e","l","d","s">>, <<"F","l","a","g","s","N">>, <<"B","o","g","u","s">>, <<>> }

RECURSIVE JoinBar(_)
JoinBar(segs) ==
    IF Len(segs) = 1 THEN segs[1]
    ELSE segs[1] \o <<"|">> \o JoinBar(Tail(segs))

DecodeInputs ==
    { JoinBar(segs) : segs \in UNION { [1..k -> Segments] : k \in 1..MaxSegs } }

BitInputs == 0..(Pow2(MaxBits) - 1)

CountInputs == 0..(MaxBits + 1)

AccInputs == 0..MaxAcc

\* s is one of the names of the ki.Flags table
IsFlagsName(s) == \E j \in 0..FlagsN : s = Flags_nameAt(j)

FlagsOrdinal(s) == CHOOSE j \in 0..FlagsN : s = Flags_nameAt(j)

\* no goroutine is inside Values
NoCallers == <<>>

\* no map is held by reference
NoHeap == <<>>

\* no string is waiting to be converted
NoWire == [str |-> <<>>, of |-> "none", v |-> 0, n |-> 0]

\* a string the caller hands in
InputWire(s) == [str |-> s, of |-> "input", v |-> 0, n |-> 0]

(***************************************************************************)
(* Scalar conversions of ki.Flags.  One behaviour is one use: a string is  *)
(* handed in, or made by the stringifier, and then parsed into val.        *)
(***************************************************************************)
DoEnumInt64ToString ==
    \E i \in OrdInputs :
        LET str == EnumInt64ToString(i, FlagsType)
        IN  /\ wire.of = "none"
            /\ wire' = [str |-> str, of |-> "ordinal", v |-> i, n |-> 0]
            /\ call' = [op |-> "EnumInt64ToString", ival |-> i, ret |-> str]
            /\ UNCHANGED <<registry, val, bflg, callers, heap>>

DoSetEnumValueFromString ==
    LET r == SetEnumValueFromString(val, wire.str)
    IN  /\ wire.of # "none"
        /\ val' = r.val
        /\ call' = [op |-> "SetEnumValueFromString", str |-> wire.str,
                    pre |-> val, err |-> r.err]
        /\ UNCHANGED <<registry, wire, bflg, callers, heap>>

(***************************************************************************)
(* Bit-flag conversions of ki.Flags.  One behaviour is one use: a string   *)
(* is handed in, or made by the encoder, and then decoded into bflg.       *)
(***************************************************************************)
DoBitFlagsToString ==
    \E b \in BitInputs, n \in CountInputs :
        LET str == BitFlagsToString(b, n, FlagsType)
        IN  /\ wire.of = "none"
            /\ wire' = [str |-> str, of |-> "bits", v |-> b, n |-> n]
            /\ call' = [op |-> "BitFlagsToString", bflg |-> b, n |-> n,
                        ret |-> str]
            /\ UNCHANGED <<registry, val, bflg, callers, heap>>

DoBitFlagsTypeFromString ==
    LET r == BitFlagsTypeFromString(bflg, wire.str, FlagsN)
    IN  /\ wire.of # "none"
        /\ bflg' = r.bflg
        /\ call' = [op |-> "BitFlagsTypeFromString", str |-> wire.str,
                    pre |-> bflg, n |-> FlagsN, err |-> r.err]
        /\ UNCHANGED <<registry, wire, val, callers, heap>>

(***************************************************************************)
(* Go maps and interface values.                                           *)
(***************************************************************************)
\* a map with no key (also the nil map, for reads)
EmptyMap == <<>>

\* m[k] = v
Put(m, k, v) == [x \in DOMAIN m \cup {k} |-> IF x = k THEN v ELSE m[x]]

\* the nil interface value, and a non-nil one holding v
NilValue == [nil |-> TRUE]

Some(v) == [nil |-> FALSE, v |-> v]

(***************************************************************************)
(* Inputs of the registry operations.                                      *)
(***************************************************************************)
\* a bit-flag enum with this many values or more does not fit an int64
BitLimit == 64

\* the property maps handed to AddEnum: nil, or a map shared by callers
NilProps == NilValue

SharedProps == Some([desc |-> "shared"])

PropsInputs == {NilProps, SharedProps}

\* the types handed to AddEnum (the type of the en argument): package ki,
\* which registers ki.Flags, is not initialised here
RegTypes == {TestFlagsType}

\* the counts handed to AddEnumAltLower (the integer value of the en
\* argument): the declared count and one less
SmallCounts == {TestFlagsN - 1, TestFlagsN}

\* the counts handed to AddEnum: those, and the first count that is too
\* wide for a bit-flag enum
NInputs == SmallCounts \cup {BitLimit}

PrefixInputs == { <<"T","e","s","t">>, <<"F","l","a","g">> }

PropKeys == {"N", "BitFlag", "AltStrings", "desc"}

(***************************************************************************)
(* The registry: tr is a record of the three maps.                         *)
(***************************************************************************)
\* the zero EnumRegistry: the declaration var Enums EnumRegistry
ZeroRegistry == [Enums |-> EmptyMap, Props |-> EmptyMap, Vals |-> EmptyMap]

\* the effect of Properties on tr.Props: an entry is made when there is none
Properties(props, enumName) ==
    IF enumName \in DOMAIN props THEN props ELSE Put(props, enumName, EmptyMap)

\* func (tr *EnumRegistry) Prop(enumName, propKey string) interface{}
Prop(tr, enumName, propKey) ==
    IF enumName \notin DOMAIN tr.Props THEN NilValue
    ELSE IF propKey \notin DOMAIN tr.Props[enumName] THEN NilValue
    ELSE Some(tr.Props[enumName][propKey])

\* func (tr *EnumRegistry) AltStrings(enumName string) map[int64]string
AltStrings(tr, enumName) == Prop(tr, enumName, "AltStrings")

\* func (tr *EnumRegistry) NVals(eval interface{}) int64; ToInt(nil) is 0
NVals(tr, typ) ==
    LET p == Prop(tr, typ, "N") IN IF p.nil THEN 0 ELSE p.v

\* func (tr *EnumRegistry) IsBitFlag(typ reflect.Type) bool; ToBool(nil) is
\* false
IsBitFlag(tr, typ) ==
    LET p == Prop(tr, typ, "BitFlag") IN IF p.nil THEN FALSE ELSE p.v

\* func (tr *EnumRegistry) Enum(name string) reflect.Type
Enum(tr, name) ==
    IF name \in DOMAIN tr.Enums THEN Some(tr.Enums[name]) ELSE NilValue

\* func (tr *EnumRegistry) TypeRegistered(typ reflect.Type) bool
TypeRegistered(tr, typ) == typ \in DOMAIN tr.Enums

\* func (tr *EnumRegistry) AddEnum(en, bitFlag, props) reflect.Type: typ is
\* the type of en and n its integer value; the result is the registry after
\* the call
AddEnum(tr, typ, n, bitFlag, props) ==
    LET snm == typ
        enums1 == Put(tr.Enums, snm, typ)
        \* the copy of props, key by key
        props1 == IF props.nil THEN tr.Props
                  ELSE Put(tr.Props, snm,
                           [key \in DOMAIN props.v |-> props.v[key]])
        props2 == Properties(props1, snm)
        props3 == Put(props2, snm, Put(props2[snm], "N", n))
        props4 == IF bitFlag
                  THEN Put(props3, snm, Put(props3[snm], "BitFlag", TRUE))
                  ELSE props3
    IN  [Enums |-> enums1, Props |-> props4, Vals |-> tr.Vals]

\* whether AddEnum writes its "more than 64 bits" line to the log
AddEnumLogs(n, bitFlag) == bitFlag /\ n >= BitLimit

\* an AddEnumAltLower that removes the prefix but keeps the case
AddEnumAltLower_KeepCase(tr, typ, n, bitFlag, props, prefix) ==
    LET tr1  == AddEnum(tr, typ, n, bitFlag, props)
        alts == [i \in 0..(n - 1) |->
                    TrimPrefix(EnumInt64ToString(i, typ), prefix)]
    IN  [tr1 EXCEPT !.Props = Put(@, typ, Put(@[typ], "AltStrings", alts))]

\* func (tr *EnumRegistry) AddEnumAltLower(en, bitFlag, props, prefix)
AddEnumAltLower(tr, typ, n, bitFlag, props, prefix) ==
    LET tr1  == AddEnum(tr, typ, n, bitFlag, props)
        snm  == typ
        tp   == Properties(tr1.Props, snm)
        alts == [i \in 0..(n - 1) |->
                    ToLower(TrimPrefix(EnumInt64ToString(i, typ), prefix))]
    IN  [tr1 EXCEPT !.Props = Put(tp, snm, Put(tp[snm], "AltStrings", alts))]

\* the slice Values builds when the cache has no entry for enumName
BuildValues(tr, enumName, alt) ==
    LET alts == AltStrings(tr, enumName)
        et   == tr.Enums[enumName]
        n    == Prop(tr, enumName, "N").v
    IN  [k \in 1..n |->
            [Name  |-> IF alt /\ ~alts.nil
                       THEN IF (k - 1) \in DOMAIN alts.v
                            THEN alts.v[k - 1] ELSE <<>>
                       ELSE EnumInt64ToString(k - 1, et),
             Value |-> k - 1,
             Type  |-> et]]

\* Values panics on the type assertion .(int64) when there is no "N"
ValuesPanics(tr, enumName) ==
    enumName \notin DOMAIN tr.Vals /\ Prop(tr, enumName, "N").nil

\* a Values that builds the slice on every call
Values_NoCache(tr, enumName, alt) ==
    LET vals == BuildValues(tr, enumName, alt)
    IN  [tr |-> [tr EXCEPT !.Vals = Put(@, enumName, vals)], ret |-> vals]

\* func (tr *EnumRegistry) Values(enumName string, alt bool) []EnumValue,
\* when it does not panic: the registry after the call and the slice returned
Values(tr, enumName, alt) ==
    IF enumName \in DOMAIN tr.Vals
    THEN [tr |-> tr, ret |-> tr.Vals[enumName]]
    ELSE LET vals == BuildValues(tr, enumName, alt)
         IN  [tr |-> [tr EXCEPT !.Vals = Put(@, enumName, vals)], ret |-> vals]

\* the registry the state holds
Reg == [Enums |-> Enums, Props |-> Props, Vals |-> Vals]

\* var KiT_TestFlags = Enums.AddEnumAltLower(TestFlagsN, false, nil, "Test"):
\* the registry after the package is initialised
InitRegistry ==
    AddEnumAltLower(ZeroRegistry, TestFlagsType, TestFlagsN, FALSE, NilProps,
                    <<"T","e","s","t">>)

(***************************************************************************)
(* Registry operations as steps.                                           *)
(***************************************************************************)
SetRegistry(tr) ==
    /\ Enums' = tr.Enums
    /\ Props' = tr.Props
    /\ Vals' = tr.Vals

DoAddEnum ==
    \E typ \in RegTypes, n \in NInputs, bitFlag \in BOOLEAN, props \in PropsInputs :
        /\ SetRegistry(AddEnum(Reg, typ, n, bitFlag, props))
        /\ call' = [op |-> "AddEnum", typ |-> typ, n |-> n,
                    bitFlag |-> bitFlag, props |-> props, ret |-> typ,
                    logged |-> AddEnumLogs(n, bitFlag)]
        /\ UNCHANGED <<wire, val, bflg, callers, heap>>

DoAddEnumAltLower ==
    \E typ \in RegTypes, n \in SmallCounts, bitFlag \in BOOLEAN,
       props \in PropsInputs, prefix \in PrefixInputs :
        /\ SetRegistry(AddEnumAltLower(Reg, typ, n, bitFlag, props, prefix))
        /\ call' = [op |-> "AddEnumAltLower", typ |-> typ, n |-> n,
                    bitFlag |-> bitFlag, props |-> props, prefix |-> prefix,
                    ret |-> typ, logged |-> AddEnumLogs(n, bitFlag)]
        /\ UNCHANGED <<wire, val, bflg, callers, heap>>

DoEnum ==
    \E name \in Types :
        /\ call' = [op |-> "Enum", name |-> name, ret |-> Enum(Reg, name)]
        /\ UNCHANGED <<registry, wire, val, bflg, callers, heap>>

DoTypeRegistered ==
    \E typ \in Types :
        /\ call' = [op |-> "TypeRegistered", name |-> typ,
                    ret |-> TypeRegistered(Reg, typ)]
        /\ UNCHANGED <<registry, wire, val, bflg, callers, heap>>

DoProperties ==
    \E name \in Types :
        /\ Props' = Properties(Props, name)
        /\ call' = [op |-> "Properties", name |-> name, ret |-> Props'[name]]
        /\ UNCHANGED <<Enums, Vals, wire, val, bflg, callers, heap>>

DoProp ==
    \E name \in Types, key \in PropKeys :
        /\ call' = [op |-> "Prop", name |-> name, key |-> key,
                    ret |-> Prop(Reg, name, key)]
        /\ UNCHANGED <<registry, wire, val, bflg, callers, heap>>

DoAltStrings ==
    \E name \in Types :
        /\ call' = [op |-> "AltStrings", name |-> name,
                    ret |-> AltStrings(Reg, name)]
        /\ UNCHANGED <<registry, wire, val, bflg, callers, heap>>

DoNVals ==
    \E typ \in Types :
        /\ call' = [op |-> "NVals", name |-> typ, ret |-> NVals(Reg, typ)]
        /\ UNCHANGED <<registry, wire, val, bflg, callers, heap>>

DoIsBitFlag ==
    \E typ \in Types :
        /\ call' = [op |-> "IsBitFlag", name |-> typ,
                    ret |-> IsBitFlag(Reg, typ)]
        /\ UNCHANGED <<registry, wire, val, bflg, callers, heap>>

DoValues ==
    \E name \in Types, alt \in BOOLEAN :
        IF ValuesPanics(Reg, name)
        THEN /\ call' = [op |-> "Values", name |-> name, alt |-> alt,
                         panic |-> TRUE]
             /\ UNCHANGED <<registry, wire, val, bflg, callers, heap>>
        ELSE LET r == Values(Reg, name, alt)
             IN  /\ SetRegistry(r.tr)
                 /\ call' = [op |-> "Values", name |-> name, alt |-> alt,
                             panic |-> FALSE, ret |-> r.ret]
                 /\ UNCHANGED <<wire, val, bflg, callers, heap>>

(***************************************************************************)
(* Specifications.                                                         *)
(***************************************************************************)
Init ==
    /\ Enums = InitRegistry.Enums
    /\ Props = InitRegistry.Props
    /\ Vals = InitRegistry.Vals
    /\ call = [op |-> "init"]
    /\ wire = NoWire
    /\ val = 0
    /\ bflg = 0
    /\ callers = NoCallers
    /\ heap = NoHeap

\* the registry: registration and read access
Next ==
    \/ DoAddEnum
    \/ DoAddEnumAltLower
    \/ DoEnum
    \/ DoTypeRegistered
    \/ DoProperties
    \/ DoProp
    \/ DoAltStrings
    \/ DoNVals
    \/ DoIsBitFlag

Spec == Init /\ [][Next]_vars

\* the registry: registration and the catalog
NextCatalog ==
    \/ DoAddEnum
    \/ DoAddEnumAltLower
    \/ DoValues

SpecCatalog == Init /\ [][NextCatalog]_vars

\* the scalar conversions of ki.Flags: the target holds any ordinal of the
\* table, and a string is handed in or not
InitScalar ==
    /\ Enums = InitRegistry.Enums
    /\ Props = InitRegistry.Props
    /\ Vals = InitRegistry.Vals
    /\ call = [op |-> "init"]
    /\ wire \in {NoWire} \cup {InputWire(s) : s \in ScalarInputs}
    /\ val \in 0..FlagsN
    /\ bflg = 0
    /\ callers = NoCallers
    /\ heap = NoHeap

NextScalar ==
    \/ DoEnumInt64ToString
    \/ DoSetEnumValueFromString

SpecScalar == InitScalar /\ [][NextScalar]_vars

\* the bit-flag codec on ki.Flags: the accumulator holds any small value,
\* and a string is handed in or not
InitBits ==
    /\ Enums = InitRegistry.Enums
    /\ Props = InitRegistry.Props
    /\ Vals = InitRegistry.Vals
    /\ call = [op |-> "init"]
    /\ wire \in {NoWire} \cup {InputWire(s) : s \in DecodeInputs}
    /\ val = 0
    /\ bflg \in AccInputs
    /\ callers = NoCallers
    /\ heap = NoHeap

NextBits ==
    \/ DoBitFlagsToString
    \/ DoBitFlagsTypeFromString

SpecBits == InitBits /\ [][NextBits]_vars

(***************************************************************************)
(* Values called from two goroutines.  The method takes no lock, so the    *)
(* goroutines interleave between its statements; each one is a frame       *)
(*   pc        the statement it executes next                              *)
(*   enumName  alt   its arguments                                         *)
(*   vals      its local variable vals                                     *)
(*   wrote     whether it has executed tr.Vals[enumName] = vals            *)
(***************************************************************************)
Goroutines == {1, 2}

\* a goroutine that has called Values(enumName, alt) and executed nothing yet
Entered(enumName, alt) ==
    [pc |-> "read", enumName |-> enumName, alt |-> alt, vals |-> <<>>,
     wrote |-> FALSE]

\* the process is alive: no goroutine has panicked and the runtime has not
\* stopped it
Running == \A g \in Goroutines : callers[g].pc \notin {"panic", "fatal"}

\* the next statement of goroutine g accesses the map tr.Vals
AtValsAccess(g) == callers[g].pc \in {"read", "write"}

\* vals, ok := tr.Vals[enumName]; if ok { return vals }
ValuesRead(g) ==
    LET f == callers[g]
    IN  /\ Running
        /\ f.pc = "read"
        /\ callers' = [callers EXCEPT ![g] =
               IF f.enumName \in DOMAIN Vals
               THEN [f EXCEPT !.pc = "return", !.vals = Vals[f.enumName]]
               ELSE [f EXCEPT !.pc = "build"]]
        /\ UNCHANGED <<registry, call, wire, val, bflg, heap>>

\* alts := ...; et := ...; n := tr.Prop(enumName, "N").(int64), which panics
\* when there is no "N"; vals = make(...) and the loop that fills it
ValuesBuild(g) ==
    LET f == callers[g]
    IN  /\ Running
        /\ f.pc = "build"
        /\ callers' = [callers EXCEPT ![g] =
               IF Prop(Reg, f.enumName, "N").nil
               THEN [f EXCEPT !.pc = "panic"]
               ELSE [f EXCEPT !.pc = "write",
                              !.vals = BuildValues(Reg, f.enumName, f.alt)]]
        /\ UNCHANGED <<registry, call, wire, val, bflg, heap>>

\* tr.Vals[enumName] = vals.  When the other goroutine is at an access of the
\* same map the two accesses are a data race: the write takes effect, or the
\* runtime detects it and stops the process with a fatal error
ValuesWrite(g) ==
    LET f == callers[g]
    IN  /\ Running
        /\ f.pc = "write"
        /\ \/ /\ Vals' = Put(Vals, f.enumName, f.vals)
              /\ callers' = [callers EXCEPT ![g] =
                     [f EXCEPT !.pc = "return", !.wrote = TRUE]]
           \/ /\ \E h \in Goroutines \ {g} : AtValsAccess(h)
              /\ Vals' = Vals
              /\ callers' = [callers EXCEPT ![g] = [f EXCEPT !.pc = "fatal"]]
        /\ UNCHANGED <<Enums, Props, call, wire, val, bflg, heap>>

\* return vals
ValuesReturn(g) ==
    LET f == callers[g]
    IN  /\ Running
        /\ f.pc = "return"
        /\ callers' = [callers EXCEPT ![g] = [f EXCEPT !.pc = "done"]]
        /\ call' = [op |-> "Values", name |-> f.enumName, alt |-> f.alt,
                    panic |-> FALSE, ret |-> f.vals]
        /\ UNCHANGED <<registry, wire, val, bflg, heap>>

\* two goroutines have called Values, each with its own arguments, on the
\* registry the package initialisation leaves: the cache is empty
InitRace ==
    /\ Enums = InitRegistry.Enums
    /\ Props = InitRegistry.Props
    /\ Vals = InitRegistry.Vals
    /\ call = [op |-> "init"]
    /\ wire = NoWire
    /\ val = 0
    /\ bflg = 0
    /\ callers \in [Goroutines -> {Entered(nm, alt) : nm \in Types,
                                                      alt \in BOOLEAN}]
    /\ heap = NoHeap

NextRace ==
    \/ \E g \in Goroutines : ValuesRead(g)
    \/ \E g \in Goroutines : ValuesBuild(g)
    \/ \E g \in Goroutines : ValuesWrite(g)
    \/ \E g \in Goroutines : ValuesReturn(g)

SpecRace == InitRace /\ [][NextRace]_vars

(***************************************************************************)
(* Property templates.  A Go map is a reference: the template a caller     *)
(* hands to AddEnum, and a map stored as a value inside it, live in heap   *)
(* under an address, and a value that is such a map is the address.        *)
(***************************************************************************)
TemplateAddr == "template"

NestedAddr == "nested"

Ref(a) == [ref |-> a]

\* the keys of a property map whose value is a map
RefKeys == {"sub"}

\* a template with a string and a map in it, as its caller made it
InitHeap ==
    (TemplateAddr :> [desc |-> "shared", sub |-> Ref(NestedAddr)])
        @@ (NestedAddr :> [k |-> 0])

\* the en arguments of the registrations from the template: the count
\* constant of each type
TemplateEnums == {[typ |-> TestFlagsType, n |-> TestFlagsN],
                  [typ |-> FlagsType, n |-> FlagsN]}

\* tr.AddEnum(en, bitFlag, template): props is the template map, which the
\* copy loop reads key by key
DoAddEnumTemplate ==
    \E en \in TemplateEnums, bitFlag \in BOOLEAN :
        /\ SetRegistry(AddEnum(Reg, en.typ, en.n, bitFlag,
                               Some(heap[TemplateAddr])))
        /\ call' = [op |-> "AddEnum", typ |-> en.typ, n |-> en.n,
                    bitFlag |-> bitFlag, props |-> Ref(TemplateAddr),
                    ret |-> en.typ, logged |-> AddEnumLogs(en.n, bitFlag)]
        /\ UNCHANGED <<wire, val, bflg, callers, heap>>

\* tr.AddEnumAltLower(en, bitFlag, template, prefix)
DoAddEnumAltLowerTemplate ==
    \E en \in TemplateEnums, bitFlag \in BOOLEAN, prefix \in PrefixInputs :
        /\ SetRegistry(AddEnumAltLower(Reg, en.typ, en.n, bitFlag,
                                       Some(heap[TemplateAddr]), prefix))
        /\ call' = [op |-> "AddEnumAltLower", typ |-> en.typ, n |-> en.n,
                    bitFlag |-> bitFlag, props |-> Ref(TemplateAddr),
                    prefix |-> prefix, ret |-> en.typ,
                    logged |-> AddEnumLogs(en.n, bitFlag)]
        /\ UNCHANGED <<wire, val, bflg, callers, heap>>

\* tr.Properties(typ)["desc"] = "own": Properties returns the stored map
\* itself, and the caller writes a key of it
DoSetProperty ==
    \E typ \in DOMAIN Enums :
        LET tp == Properties(Props, typ)
        IN  /\ Props' = Put(tp, typ, Put(tp[typ], "desc", "own"))
            /\ call' = [op |-> "SetProperty", typ |-> typ, key |-> "desc"]
            /\ UNCHANGED <<Enums, Vals, wire, val, bflg, callers, heap>>

\* tr.Prop(typ, "sub").(map[string]interface{})["k"] = v: Prop returns the
\* stored value, a map, and the caller writes a key of that map
DoSetNested ==
    \E typ \in DOMAIN Enums, v \in {0, 1} :
        LET sub == Prop(Reg, typ, "sub")
        IN  /\ ~sub.nil
            /\ heap' = [heap EXCEPT ![sub.v.ref] = Put(@, "k", v)]
            /\ call' = [op |-> "SetNested", typ |-> typ, key |-> "sub",
                        v |-> v]
            /\ UNCHANGED <<registry, wire, val, bflg, callers>>

\* the registry the package initialisation leaves, and a template
InitTemplate ==
    /\ Enums = InitRegistry.Enums
    /\ Props = InitRegistry.Props
    /\ Vals = InitRegistry.Vals
    /\ call = [op |-> "init"]
    /\ wire = NoWire
    /\ val = 0
    /\ bflg = 0
    /\ callers = NoCallers
    /\ heap = InitHeap

NextTemplate ==
    \/ DoAddEnumTemplate
    \/ DoAddEnumAltLowerTemplate
    \/ DoSetProperty
    \/ DoSetNested

SpecTemplate == InitTemplate /\ [][NextTemplate]_vars

(***************************************************************************)
(* Setting a ki.Flags from a string through the registry: the alternate    *)
(* names first.  The range loop over the alternate table meets its keys in *)
(* no fixed order, so each function yields the set of its possible         *)
(* outcomes; i is the value the target holds before the call, val the      *)
(* value it holds after it.                                                *)
(***************************************************************************)
\* func SetEnumValueFromInt64(eval reflect.Value, ival int64) error, on a
\* pointer
SetEnumValueFromInt64(ival) == [val |-> ival, err |-> "nil"]

\* func (tr *EnumRegistry) SetEnumValueFromAltString(eval, str) error
SetEnumValueFromAltString(tr, i, str) ==
    LET alts == AltStrings(tr, FlagsType)
    IN  IF alts.nil
        THEN {[val |-> i, err |-> "no alternative string map"]}
        ELSE LET hits == {k \in DOMAIN alts.v : alts.v[k] = str}
             IN  IF hits = {}
                 THEN {[val |-> i, err |-> "not found in alt list"]}
                 ELSE {SetEnumValueFromInt64(k) : k \in hits}

\* func (tr *EnumRegistry) SetEnumValueFromStringAltFirst(eval, str) error
SetEnumValueFromStringAltFirst(tr, i, str) ==
    UNION {IF r.err # "nil"
           THEN {SetEnumValueFromString(i, str)}
           ELSE {r} : r \in SetEnumValueFromAltString(tr, i, str)}

\* the loop of BitFlagsFromStringAltFirst over flgs[k..]
RECURSIVE BitFlagsAltFirstLoop(_, _, _, _, _, _)
BitFlagsAltFirstLoop(tr, k, flgs, evv, bf, err) ==
    IF k > Len(flgs) THEN {[bflg |-> bf, err |-> err]}
    ELSE UNION {IF r.err = "nil"
                THEN BitFlagsAltFirstLoop(tr, k + 1, flgs, r.val,
                                          bitflag_Set(bf, r.val), r.err)
                ELSE BitFlagsAltFirstLoop(tr, k + 1, flgs, r.val, bf, r.err)
                : r \in SetEnumValueFromStringAltFirst(tr, evv, flgs[k])}

\* func (tr *EnumRegistry) BitFlagsFromStringAltFirst(bflg *int64,
\* str string, et reflect.Type, n int) error, for et = ki.Flags; bf is the
\* value *bflg holds before the call; n is not read
BitFlagsFromStringAltFirst(tr, bf, str, n) ==
    BitFlagsAltFirstLoop(tr, 1, Split(str), 0, bf, "nil")

\* func (tr *EnumRegistry) SetAnyEnumValueFromString(eval, str) error, on a
\* pointer to a ki.Flags; n is the count NVals finds for eval.Interface()
SetAnyEnumValueFromString(tr, i, str, n) ==
    IF IsBitFlag(tr, FlagsType)
    THEN {IF r.err # "nil"
          THEN [val |-> i, err |-> r.err]
          ELSE SetEnumValueFromInt64(r.bflg)
          : r \in BitFlagsFromStringAltFirst(tr, 0, str, n)}
    ELSE SetEnumValueFromStringAltFirst(tr, i, str)

\* the prefix ki.Flags is registered with, when it has alternate names
FlagsPrefix == <<"H","a","s">>

\* the registry once package ki has registered ki.Flags, which it does
\* outside these sources: with or without the bit-flag tag, with or without
\* alternate names
FlagsRegistries ==
    {AddEnum(InitRegistry, FlagsType, FlagsN, b, NilProps) : b \in BOOLEAN}
        \cup {AddEnumAltLower(InitRegistry, FlagsType, FlagsN, b, NilProps,
                              FlagsPrefix) : b \in BOOLEAN}

\* the segments of the strings handed in: canonical names, alternate names,
\* an unknown name and the empty string
AltSegments == Segments \cup { <<"i","s","f","i","e","l","d">>, <<"k","i","f","i","e","l","d","s">> }

AltInputs ==
    { JoinBar(segs) : segs \in UNION { [1..k -> AltSegments] : k \in 1..MaxSegs } }

\* the counts handed to the decode: small ones and the count of ki.Flags
DecodeCounts == CountInputs \cup {FlagsN}

\* the counts NVals can find for the pointer handed to
\* SetAnyEnumValueFromString: that of ki.Flags, or none
PtrCounts == {0, NVals(Reg, FlagsType)}

DoSetEnumValueFromStringAltFirst ==
    /\ call.op = "init"
    /\ \E r \in SetEnumValueFromStringAltFirst(Reg, val, wire.str) :
           /\ val' = r.val
           /\ call' = [op |-> "SetEnumValueFromStringAltFirst",
                       str |-> wire.str, pre |-> val, err |-> r.err]
    /\ UNCHANGED <<registry, wire, bflg, callers, heap>>

DoBitFlagsFromStringAltFirst ==
    /\ call.op = "init"
    /\ \E n \in DecodeCounts :
           \E r \in BitFlagsFromStringAltFirst(Reg, bflg, wire.str, n) :
               /\ bflg' = r.bflg
               /\ call' = [op |-> "BitFlagsFromStringAltFirst",
                           str |-> wire.str, pre |-> bflg, n |-> n,
                           err |-> r.err]
    /\ UNCHANGED <<registry, wire, val, callers, heap>>

DoSetAnyEnumValueFromString ==
    /\ call.op = "init"
    /\ \E n \in PtrCounts :
           \E r \in SetAnyEnumValueFromString(Reg, val, wire.str, n) :
               /\ val' = r.val
               /\ call' = [op |-> "SetAnyEnumValueFromString",
                           str |-> wire.str, pre |-> val, err |-> r.err]
    /\ UNCHANGED <<registry, wire, bflg, callers, heap>>

\* ki.Flags is registered, a string is handed in, the target and the
\* accumulator hold any small value
InitPolicy ==
    /\ \E tr \in FlagsRegistries :
           /\ Enums = tr.Enums
           /\ Props = tr.Props
           /\ Vals = tr.Vals
    /\ call = [op |-> "init"]
    /\ wire \in {InputWire(s) : s \in AltInputs}
    /\ val \in AccInputs
    /\ bflg \in AccInputs
    /\ callers = NoCallers
    /\ heap = NoHeap

NextPolicy ==
    \/ DoSetAnyEnumValueFromString
    \/ DoSetEnumValueFromStringAltFirst
    \/ DoBitFlagsFromStringAltFirst
    \/ DoBitFlagsTypeFromString

SpecPolicy == InitPolicy /\ [][NextPolicy]_vars

(***************************************************************************)
(* Properties of the bit-flag codec (SpecBits).                            *)
(***************************************************************************)
\* some '|'-separated segment of str is not a name of the ki.Flags table
HasUnknownSegment(str) ==
    \E k \in 1..Len(Split(str)) : ~IsFlagsName(Split(str)[k])

\* the ordinals below n whose bit is set in b
SetBits(b, n) == {i \in 0..(n - 1) : (b \div Pow2(i)) % 2 = 1}

\* C1: a decode of a string with an unknown segment returns an error and
\* leaves the accumulator as it was before the call.
C1_DecodeAllOrNothing ==
    (call.op = "BitFlagsTypeFromString" /\ HasUnknownSegment(call.str))
        => (call.err # "nil" /\ bflg = call.pre)

\* C2: decoding, into a zero accumulator, the string the encoder made of a
\* value whose set bits S lie in [0, N) yields that value, for every S, the
\* empty one included.
C2_BitFlagRoundTrip ==
    (/\ call.op = "BitFlagsTypeFromString"
     /\ wire.of = "bits"
     /\ wire.v < Pow2(wire.n)
     /\ call.pre = 0)
        => bflg = wire.v

\* C7: the encoder returns the canonical names of exactly the ordinals below
\* N whose bit is set, in strictly ascending order, joined by '|' with no
\* separator at either end; with no such bit it returns the empty string.
C7_EncodeAscending ==
    call.op = "BitFlagsToString" =>
        LET S    == SetBits(call.bflg, call.n)
            segs == Split(call.ret)
        IN  IF S = {} THEN call.ret = <<>>
            ELSE /\ Len(segs) = Cardinality(S)
                 /\ \A k \in 1..Len(segs) :
                        \E i \in S : segs[k] = Flags_String(i)
                 /\ \A k \in 1..(Len(segs) - 1) :
                        \E i, j \in S : /\ i < j
                                        /\ segs[k] = Flags_String(i)
                                        /\ segs[k + 1] = Flags_String(j)

\* C7 witness: two names are joined and a bit at or above N is dropped
C7_Witness ==
    /\ call.op = "BitFlagsToString"
    /\ Cardinality(SetBits(call.bflg, call.n)) >= 2
    /\ call.bflg >= Pow2(call.n)
    /\ call.ret = Flags_String(0) \o <<"|">> \o Flags_String(2)

(***************************************************************************)
(* Properties of the scalar conversions (SpecScalar).                      *)
(***************************************************************************)
\* C3: a scalar parse of a string that is no canonical name returns an
\* error and leaves the target unchanged; it returns no error only when the
\* target was set to the ordinal whose name is the string.
C3_ScalarParseReportsUnknown ==
    call.op = "SetEnumValueFromString" =>
        IF IsFlagsName(call.str)
        THEN call.err = "nil" /\ val = FlagsOrdinal(call.str)
        ELSE call.err # "nil" /\ val = call.pre

\* C6: parsing the canonical name the stringifier made of an ordinal i in
\* [0, N) sets the target to i, whatever it held before.
C6_ScalarRoundTrip ==
    (/\ call.op = "SetEnumValueFromString"
     /\ wire.of = "ordinal"
     /\ wire.v < FlagsN)
        => val = wire.v

\* C6 witness: the name of an ordinal was parsed into a target that held
\* another ordinal
C6_Witness ==
    /\ call.op = "SetEnumValueFromString"
    /\ wire.of = "ordinal"
    /\ wire.v < FlagsN
    /\ call.str = wire.str
    /\ call.pre # wire.v
    /\ val = wire.v

(***************************************************************************)
(* Properties of the registry (Spec).                                      *)
(***************************************************************************)
RegisterOps == {"AddEnum", "AddEnumAltLower"}

ReadOps ==
    {"Enum", "TypeRegistered", "Prop", "Properties", "IsBitFlag", "NVals",
     "AltStrings"}

\* C4: after a registration, IsBitFlag is the isBitFlag argument and NVals
\* the count of that most recent call, whatever was registered before.
C4_LatestRegistrationWins ==
    call.op \in RegisterOps =>
        /\ IsBitFlag(Reg, call.typ) = call.bitFlag
        /\ NVals(Reg, call.typ) = call.n

\* C5: registering a bit-flag type with 64 values or more returns an error,
\* and no registered type is a bit-flag type with 64 values or more.
C5_WideBitFlagRejected ==
    /\ (call.op \in RegisterOps /\ call.bitFlag /\ call.n >= BitLimit)
           => call.ret = "BitWidthOverflow"
    /\ \A nm \in DOMAIN Enums :
           ~(IsBitFlag(Reg, nm) /\ NVals(Reg, nm) >= BitLimit)

\* the lower-case form of s, character by character
IsLowerOf(a, s) ==
    /\ Len(a) = Len(s)
    /\ \A k \in 1..Len(s) :
           IF \E j \in 1..Len(UpperChars) : s[k] = UpperChars[j]
           THEN \E j \in 1..Len(UpperChars) :
                    s[k] = UpperChars[j] /\ a[k] = LowerChars[j]
           ELSE a[k] = s[k]

\* name without prefix, when name starts with it; name otherwise
WithoutLeading(name, prefix) ==
    IF /\ Len(prefix) <= Len(name)
       /\ \A k \in 1..Len(prefix) : name[k] = prefix[k]
    THEN [k \in 1..(Len(name) - Len(prefix)) |-> name[k + Len(prefix)]]
    ELSE name

\* the alternate names of kit.TestFlags for the prefix "Test"
TestFlagsAlts == (0 :> <<"f","l","a","g","s","n","i","l">>) @@ (1 :> <<"f","l","a","g","1">>) @@ (2 :> <<"f","l","a","g","2">>)

\* C8: after AddEnumAltLower with count N and a prefix, AltStrings has the
\* domain [0, N) and maps i to the lower-cased canonical name of i without
\* the prefix, removed only from the start of the name; for kit.TestFlags
\* and "Test" the table is flagsnil, flag1, flag2.
C8_AltLowerTable ==
    /\ call.op = "init" => Props[TestFlagsType]["AltStrings"] = TestFlagsAlts
    /\ call.op = "AddEnumAltLower" =>
           LET alts == AltStrings(Reg, call.typ)
           IN  /\ ~alts.nil
               /\ DOMAIN alts.v = 0..(call.n - 1)
               /\ \A i \in 0..(call.n - 1) :
                      IsLowerOf(alts.v[i],
                                WithoutLeading(EnumInt64ToString(i, call.typ),
                                               call.prefix))
               /\ (call.n = TestFlagsN /\ call.prefix = <<"T","e","s","t">>)
                      => alts.v = TestFlagsAlts

\* C8 witness: a prefix that occurs inside the names, not at their start,
\* is left in place
C8_Witness ==
    /\ call.op = "AddEnumAltLower"
    /\ call.prefix = <<"F","l","a","g">>
    /\ call.n = TestFlagsN
    /\ AltStrings(Reg, call.typ).v[1] = <<"t","e","s","t","f","l","a","g","1">>

\* C9: no read access changes a map of the registry, and a type name has a
\* properties entry only if it has a descriptor entry.
C9_ReadsDoNotMutate ==
    /\ [][call'.op \in ReadOps => UNCHANGED registry]_vars
    /\ [](DOMAIN Props \subseteq DOMAIN Enums)

Writers == {g \in Goroutines : callers[g].wrote}

\* both goroutines ask for the same registered type name
SameRegisteredName ==
    /\ callers[1].enumName = callers[2].enumName
    /\ callers[1].enumName \in DOMAIN Enums

\* C11: when two goroutines make the first Values request for the same
\* registered name, under every interleaving the process keeps running, the
\* cache entry is written at most once, and once both have returned it has
\* been written exactly once and both hold the same sequence, whatever
\* their alt flags.
C11_ComputeOncePublishOnce ==
    SameRegisteredName =>
        /\ Running
        /\ Cardinality(Writers) <= 1
        /\ (\A g \in Goroutines : callers[g].pc = "done") =>
               /\ Cardinality(Writers) = 1
               /\ callers[1].vals = callers[2].vals

(***************************************************************************)
(* Properties of registrations from a template (SpecTemplate).             *)
(***************************************************************************)
\* the property map m with every map stored in it replaced by its content
\* in heap h
DeepIn(h, m) ==
    [key \in DOMAIN m |-> IF key \in RefKeys THEN h[m[key].ref] ELSE m[key]]

ChangeOps == {"SetProperty", "SetNested"}

\* C12: a registration leaves the template and every value in it as they
\* were, and a change to the stored properties of one type, at any depth,
\* changes neither the template nor the properties of any other type.
C12_TemplateDeepCopied ==
    [][/\ call'.op \in RegisterOps \cup ChangeOps =>
              DeepIn(heap', heap'[TemplateAddr])
                  = DeepIn(heap, heap[TemplateAddr])
       /\ call'.op \in ChangeOps =>
              \A other \in DOMAIN Props \ {call'.typ} :
                  DeepIn(heap', Props'[other]) = DeepIn(heap, Props[other])]_vars

(***************************************************************************)
(* Properties of setting ki.Flags through the registry (SpecPolicy).       *)
(***************************************************************************)
\* the ordinals a name stands for: those the alternate table of ki.Flags
\* gives it, if any, and the one of the canonical name table otherwise
Resolve(name) ==
    LET alts == AltStrings(Reg, FlagsType)
        hits == IF alts.nil THEN {}
                ELSE {i \in DOMAIN alts.v : alts.v[i] = name}
    IN  IF hits # {} THEN hits
        ELSE {i \in 0..FlagsN : Flags_nameAt(i) = name}

\* C13: SetAnyEnumValueFromString on a pointer to the registered ki.Flags.
\* With the bit-flag tag, a string whose segments are all names sets the
\* target to exactly the bits of those names, alternate names first,
\* whatever the target held, and a string with a segment that is no name
\* returns an error and leaves the target unchanged; without the tag, a
\* name sets the target to its ordinal, alternate names first.
C13_PolicyDispatch ==
    call.op = "SetAnyEnumValueFromString" =>
        LET segs == Split(call.str)
        IN  IF IsBitFlag(Reg, FlagsType)
            THEN IF \A k \in 1..Len(segs) : Resolve(segs[k]) # {}
                 THEN /\ call.err = "nil"
                      /\ val < Pow2(FlagsN + 1)
                      /\ \A i \in 0..FlagsN :
                             bitflag_Has(val, i)
                                 <=> \E k \in 1..Len(segs) :
                                         i \in Resolve(segs[k])
                 ELSE call.err # "nil" /\ val = call.pre
            ELSE Resolve(call.str) # {} =>
                     (call.err = "nil" /\ val \in Resolve(call.str))

\* C14: a bit-flag decode called with count n changes only bits at
\* positions below n that are the ordinal of a name which is a segment of
\* the input: a canonical name, or for the alt-first decode an alternate
\* name.
C14_DecodeSetsOnlyNamedBits ==
    call.op \in {"BitFlagsTypeFromString", "BitFlagsFromStringAltFirst"} =>
        LET segs == Split(call.str)
        IN  \A i \in 0..FlagsN :
                (bitflag_Has(bflg, i) # bitflag_Has(call.pre, i)) =>
                    /\ i < call.n
                    /\ \E k \in 1..Len(segs) :
                           \/ segs[k] = Flags_nameAt(i)
                           \/ /\ call.op = "BitFlagsFromStringAltFirst"
                              /\ i \in Resolve(segs[k])

====
